---- MODULE Spec2Model ----
(***************************************************************************)
(* A model of flit_install_py2.py: the requirement translator              *)
(* (_requires_dist_to_pip_requirement), the layout resolver (get_dirs),    *)
(* and the Installer (construction, install, install_requirements,         *)
(* install_scripts) acting on an abstract filesystem and an external pip   *)
(* process.                                                                *)
(*                                                                         *)
(* Python strings are sequences of one-character strings, so that split,   *)
(* strip, replace and join are computed character by character.            *)
(***************************************************************************)
EXTENDS Integers, Sequences, FiniteSets, TLC

VARIABLES
    \* ---- _requires_dist_to_pip_requirement(requires_dist) ----
    requires_dist,   \* the argument
    pip_req,         \* the returned string (<<>> before the call returns)
    t_pc,            \* "call" | "return"
    \* ---- get_dirs(user) ----
    gd_user,         \* the argument
    gd_platform,     \* sys.platform
    gd_vars,         \* _interpolation_vars
    gd_ret,          \* the returned mapping, or Raised(...)
    gd_pc,           \* "call" | "return"
    \* ---- Installer ----
    env,             \* the process environment: platform, uid, FLIT_ROOT_INSTALL, ...
    cfg,             \* the parsed flit.ini
    fs,              \* the filesystem
    fs0,             \* the filesystem as it was when the run started
    self,            \* the Installer object's fields
    pc,              \* position of the run
    err,             \* the exception that ended the run ("none" while running)
    dirs,            \* install's local `dirs`
    cmd,             \* install_requirements' local `cmd`
    rc,              \* exit status of the pip subprocess
    pip_calls,       \* what each pip subprocess was started with and saw
    idx,             \* install_scripts' loop position
    trace            \* the calls and filesystem operations performed so far

tvars == <<requires_dist, pip_req, t_pc>>
gvars == <<gd_user, gd_platform, gd_vars, gd_ret, gd_pc>>
ivars == <<env, cfg, fs, fs0, self, pc, err, dirs, cmd, rc, pip_calls, idx, trace>>
vars  == <<tvars, gvars, ivars>>

-----------------------------------------------------------------------------
(* Bounds of the model *)

\* longest enumerated requirement declaration
MaxLen == 5
\* most `requires` lines in flit.ini
MaxRequires == 2
\* most `dev-requires` lines in flit.ini
MaxDevRequires == 1
\* most entries of the [scripts] section
MaxScripts == 2

-----------------------------------------------------------------------------
(* Python str operations *)

Whitespace == {" ", "\t", "\n", "\r"}

\* c in s
Contains(s, c) == \E i \in 1..Len(s) : s[i] = c

RECURSIVE Before(_, _)
\* s.split(c, 1)[0], for s containing c: the text before the first c
Before(s, c) ==
    IF s = <<>> \/ Head(s) = c THEN <<>>
    ELSE <<Head(s)>> \o Before(Tail(s), c)

RECURSIVE After(_, _)
\* s.split(c, 1)[1], for s containing c: the text after the first c
After(s, c) ==
    IF s = <<>> THEN <<>>
    ELSE IF Head(s) = c THEN Tail(s)
    ELSE After(Tail(s), c)

\* s.split(c, 1), for s containing c
Split1(s, c) == <<Before(s, c), After(s, c)>>

RECURSIVE LStrip(_)
LStrip(s) ==
    IF s # <<>> /\ Head(s) \in Whitespace THEN LStrip(Tail(s)) ELSE s

RECURSIVE RStrip(_)
RStrip(s) ==
    IF s # <<>> /\ s[Len(s)] \in Whitespace
    THEN RStrip(SubSeq(s, 1, Len(s) - 1)) ELSE s

\* s.strip()
Strip(s) == RStrip(LStrip(s))

RECURSIVE Remove(_, _)
\* s.replace(c, '')
Remove(s, c) ==
    IF s = <<>> THEN <<>>
    ELSE IF Head(s) = c THEN Remove(Tail(s), c)
    ELSE <<Head(s)>> \o Remove(Tail(s), c)

RECURSIVE Join(_, _)
\* sep.join(parts)
Join(sep, parts) ==
    IF parts = <<>> THEN <<>>
    ELSE IF Len(parts) = 1 THEN parts[1]
    ELSE parts[1] \o sep \o Join(sep, Tail(parts))

-----------------------------------------------------------------------------
(* _requires_dist_to_pip_requirement *)

\* faulty variant: only '=' is looked for
HasOperator_EqualsOnly(version) == Contains(version, "=")

\* any(c in version for c in '=<>')
HasOperator(version) == \E c \in {"=", "<", ">"} : Contains(version, c)

\* lines 63-71: 'name (X)' -> 'name==X', 'name (<X.Y)' -> 'name<X.Y'
RewriteNameVersion(name_version) ==
    IF Contains(name_version, "(")
    THEN LET parts   == Split1(name_version, "(")
             name    == Strip(parts[1])
             stripped == Strip(Remove(parts[2], ")"))
             version == IF ~HasOperator(stripped)
                        THEN <<"=", "=">> \o stripped
                        ELSE stripped
         IN  name \o version
    ELSE name_version

\* faulty variant: the ';' is left out when there is no marker
ReAddMarker_SkipEmpty(name_version, env_mark) ==
    IF env_mark = <<>> THEN name_version
    ELSE Join(<<";">>, <<name_version, env_mark>>)

\* line 73: ';'.join([name_version, env_mark])
ReAddMarker(name_version, env_mark) == Join(<<";">>, <<name_version, env_mark>>)

\* faulty variant: the marker is stripped of surrounding whitespace
RequiresDistToPipRequirement_StripMarker(rd) ==
    LET has_mark == Contains(rd, ";")
        name_version == IF has_mark THEN Split1(rd, ";")[1] ELSE rd
        env_mark     == IF has_mark THEN Strip(Split1(rd, ";")[2]) ELSE <<>>
    IN  ReAddMarker(RewriteNameVersion(name_version), env_mark)

\* lines 58-73
RequiresDistToPipRequirement(rd) ==
    LET has_mark == Contains(rd, ";")
        name_version == IF has_mark THEN Split1(rd, ";")[1] ELSE rd
        env_mark     == IF has_mark THEN Split1(rd, ";")[2] ELSE <<>>
    IN  ReAddMarker(RewriteNameVersion(name_version), env_mark)

-----------------------------------------------------------------------------
(* get_dirs *)

\* The outcome of a call: an exception raised, or a value returned
Raised(exc) == [raised |-> exc]
Returned(v) == [value |-> v]
IsRaised(r) == "raised" \in DOMAIN r

\* A template is a sequence of tokens: literal text, or a replacement field {name}
Lit(text)   == [lit |-> text]
Field(name) == [field |-> name]

RECURSIVE Digits(_)
\* format() of an int: its decimal digits
Digits(n) ==
    LET d == <<"0", "1", "2", "3", "4", "5", "6", "7", "8", "9">>
    IN  IF n < 10 THEN <<d[n + 1]>> ELSE Digits(n \div 10) \o <<d[(n % 10) + 1]>>

\* the entries of _interpolation_vars that hold an int (sys.version_info[0], [1])
IntFields == {"py_major", "py_minor"}

\* format() of one entry of _interpolation_vars: an int or a str
Render(ivs, name) == IF name \in IntFields THEN Digits(ivs[name]) ELSE <<ivs[name]>>

RECURSIVE StrFormat(_, _)
\* str.format(**vars): the pieces of the resulting string, in order
StrFormat(tpl, ivs) ==
    IF tpl = <<>> THEN <<>>
    ELSE LET tok == Head(tpl)
         IN  (IF "lit" \in DOMAIN tok THEN <<tok.lit>> ELSE Render(ivs, tok.field))
             \o StrFormat(Tail(tpl), ivs)

\* Python values held by the locals `scripts` and `purelib`
PyStr(tpl)     == [type |-> "str", val |-> tpl]
PyTuple(items) == [type |-> "tuple", items |-> items]

\* obj.format(**vars): only str has the method
CallFormat(obj, ivs) ==
    IF obj.type = "str" THEN Returned(StrFormat(obj.val, ivs))
    ELSE Raised("AttributeError")

\* lines 80-91: the branch taken, giving the locals `scripts` and `purelib`.
\* In the user branch purelib is site.USER_SITE itself (line 81), a path without
\* braces, which format() on line 95 returns as it is.
DirTemplates(user, platform, ivs) ==
    IF user THEN
        [purelib |-> PyStr(<<Lit(ivs.usersite)>>),
         scripts |-> IF platform = "win32"
                     THEN PyStr(<<Field("userbase"), Lit("/Python"), Field("py_major"),
                                  Field("py_minor"), Lit("/Scripts")>>)
                     ELSE PyStr(<<Field("userbase"), Lit("/bin")>>)]
    ELSE IF platform = "win32" THEN
        \* line 87 ends with a comma: `scripts` is a 1-tuple holding the template
        [scripts |-> PyTuple(<<PyStr(<<Field("prefix"), Lit("/Scripts")>>)>>),
         purelib |-> PyStr(<<Field("prefix"), Lit("/Lib/site-packages")>>)]
    ELSE
        [scripts |-> PyStr(<<Field("prefix"), Lit("/bin")>>),
         purelib |-> PyStr(<<Field("prefix"), Lit("/lib/python"), Field("py_major"),
                              Lit("."), Field("py_minor"), Lit("/site-packages")>>)]

\* lines 93-96: the dict display evaluates 'scripts' first, then 'purelib'
GetDirs(user, platform, ivs) ==
    LET t == DirTemplates(user, platform, ivs)
        s == CallFormat(t.scripts, ivs)
        p == CallFormat(t.purelib, ivs)
    IN  IF IsRaised(s) THEN s
        ELSE IF IsRaised(p) THEN p
        ELSE [scripts |-> s.value, purelib |-> p.value]

\* values of _interpolation_vars (lines 45-51) the model draws from
InterpolationVars ==
    [userbase : {"/home/u/.local", "C:/Users/u/AppData/Roaming/Python"},
     usersite : {"/home/u/.local/lib/python2.7/site-packages",
                 "C:/Users/u/AppData/Roaming/Python/Python27/site-packages"},
     py_major : {2, 3},
     py_minor : {6, 7, 10},
     prefix   : {"/usr", "C:/Python27"}]

Platforms == {"win32", "linux"}

-----------------------------------------------------------------------------
(* The Installer's world: environment, flit.ini, filesystem *)

\* requirement declarations written in flit.ini
DeclFooEq  == <<"f", "o", "o", " ", "(", "1", ".", "2", ")">>
DeclBarGe  == <<"b", "a", "r", " ", "(", ">", "=", "2", ")">>
DeclBaz    == <<"b", "a", "z">>
DeclDevMk  == <<"q", ";", " ", "x", "=", "=", "'", "d", "'">>
DeclDevVer == <<"t", "(", "<", "3", ")", ";", "m">>

RequiresPool    == <<DeclFooEq, DeclBaz, DeclBarGe>>
DevRequiresPool == <<DeclDevMk, DeclDevVer>>

\* the first n entries of a pool, cycling when n exceeds it
Take(pool, n) == [i \in 1..n |-> pool[((i - 1) % Len(pool)) + 1]]

\* entries of the [scripts] section: name = module:func
ScriptName(i) == <<"s", i>>
ScriptDef(i)  == [name |-> ScriptName(i), ep |-> [module |-> "mod", func |-> <<"main", i>>]]

\* an optional value: <<>> is None / absent, <<v>> is v
None    == <<>>
Some(v) == <<v>>

\* truth value of os.environ.get(...): None and '' are false
Truthy(opt) == opt # None /\ opt[1] # ""

\* a filesystem node at the destination path
Absent         == [kind |-> "absent", from |-> "none"]
Node(kind, by) == [kind |-> kind, from |-> by]

RECURSIVE SplitLines(_)
\* str.splitlines(), for text whose line breaks are "\n"
SplitLines(text) ==
    IF text = <<>> THEN <<>>
    ELSE IF Contains(text, "\n")
         THEN <<Before(text, "\n")>> \o SplitLines(After(text, "\n"))
         ELSE <<text>>

\* the value configparser holds for a multi-line option
OptionValue(lines) == Join(<<"\n">>, lines)

Environments ==
    [platform         : Platforms,
     uid              : {0, 1000},
     FLIT_ROOT_INSTALL: {None, Some(""), Some("1")},
     ENABLE_USER_SITE : BOOLEAN,
     interp           : {[userbase |-> "/home/u/.local",
                          usersite |-> "/home/u/.local/lib/python2.7/site-packages",
                          py_major |-> 2, py_minor |-> 7, prefix |-> "/usr"]}]

Configs ==
    {[module       |-> "mod",
      requires     |-> OptionValue(Take(RequiresPool, n)),
      dev_requires |-> OptionValue(Take(DevRequiresPool, m)),
      scripts      |-> sc] :
        n \in 0..MaxRequires, m \in 0..MaxDevRequires,
        sc \in {None} \cup {Some([i \in 1..k |-> ScriptDef(i)]) : k \in 0..MaxScripts}}

Filesystems ==
    {f \in [pkg_dir    : BOOLEAN,      \* os.path.isdir('./mod')
            py_file    : BOOLEAN,      \* os.path.isfile('./mod.py')
            purelib    : BOOLEAN,      \* the purelib directory exists
            scripts_dir: BOOLEAN,      \* the scripts directory exists
            dst        : {Absent, Node("dir", "before"), Node("file", "before"),
                          Node("link", "before")},
            tmp        : {None},       \* the temporary requirements file
            launchers  : {{}},         \* script files written
            modes      : {{}},         \* script files made executable
            wrappers   : {{}}] :       \* .cmd files written
        ~f.purelib => f.dst = Absent}

-----------------------------------------------------------------------------
(* Installer *)

NoSelf == [constructed |-> FALSE]

\* the run ends with an exception
Fail(exc) == pc' = "failed" /\ err' = exc

\* lines 20-35, Module.__init__: the outcome of looking for ./mod and ./mod.py
ModuleInit(f) ==
    IF f.pkg_dir /\ f.py_file THEN Raised("ValueError: both exist")
    ELSE IF f.pkg_dir THEN [is_package |-> TRUE]
    ELSE IF f.py_file THEN [is_package |-> FALSE]
    ELSE Raised("ValueError: no file/folder found")

\* faulty variant: an empty FLIT_ROOT_INSTALL counts as the opt-in
RootRefused_UnsetOnly(e) == e.uid = 0 /\ e.FLIT_ROOT_INSTALL = None

\* line 122: root without the opt-in
RootRefused(e) == e.uid = 0 /\ ~Truthy(e.FLIT_ROOT_INSTALL)

\* lines 112-125, Installer.__init__(ini_path, user, symlink)
Construct(user, symlink) ==
    /\ pc = "start"
    /\ LET m == ModuleInit(fs)
       IN  IF IsRaised(m) THEN
               /\ Fail(m.raised)
               /\ self' = self
           ELSE IF RootRefused(env) THEN
               /\ Fail("RootInstallError")
               /\ self' = self
           ELSE
               /\ self' = [constructed |-> TRUE,
                           module  |-> m,
                           user    |-> IF user = None THEN env.ENABLE_USER_SITE
                                       ELSE user[1],
                           symlink |-> symlink]
               /\ pc' = "constructed"
               /\ err' = err
    /\ trace' = Append(trace, "Installer.__init__")
    /\ UNCHANGED <<env, cfg, fs, fs0, dirs, cmd, rc, pip_calls, idx>>
    /\ UNCHANGED <<tvars, gvars>>

\* os.makedirs(d) inside try/except OSError: creates d unless it exists
Makedirs(f, d) == [f EXCEPT ![d] = TRUE]

\* lines 180-189 of install: get_dirs, then the two makedirs
InstallDirs ==
    /\ pc = "constructed"
    /\ LET d == GetDirs(self.user, env.platform, env.interp)
       IN  IF IsRaised(d) THEN
               /\ Fail(d.raised)
               /\ trace' = Append(trace, "get_dirs")
               /\ UNCHANGED <<dirs, fs>>
           ELSE
               /\ dirs' = d
               /\ fs' = Makedirs(Makedirs(fs, "purelib"), "scripts_dir")
               /\ trace' = trace \o <<"get_dirs">>
                           \o (IF fs.purelib THEN <<>> ELSE <<"makedirs purelib">>)
                           \o (IF fs.scripts_dir THEN <<>> ELSE <<"makedirs scripts">>)
               /\ pc' = "remove_dst"
               /\ err' = err
    /\ UNCHANGED <<env, cfg, fs0, self, cmd, rc, pip_calls, idx>>
    /\ UNCHANGED <<tvars, gvars>>

\* faulty variant: the module is copied before the requirements are installed
Following_CopyFirst(stmt) ==
    CASE stmt = "remove_dst"   -> "copy"
      [] stmt = "copy"         -> "requirements"
      [] stmt = "requirements" -> "scripts"

\* lines 191-210 of install: the statement that follows each one
Following(stmt) ==
    CASE stmt = "remove_dst"   -> "requirements"
      [] stmt = "requirements" -> "copy"
      [] stmt = "copy"         -> "scripts"

\* faulty variant: only a real directory is removed
RemoveDst_DirsOnly(f) ==
    IF f.dst.kind = "dir" THEN [f EXCEPT !.dst = Absent] ELSE f

\* lines 192-196: rmtree for a real directory, unlink for anything else
RemoveDst(f) == IF f.dst = Absent THEN f ELSE [f EXCEPT !.dst = Absent]

\* lines 191-196 of install: remove whatever is at the destination path
InstallRemoveDst ==
    /\ pc = "remove_dst"
    /\ fs' = RemoveDst(fs)
    /\ trace' = IF fs'.dst = fs.dst THEN trace
                ELSE Append(trace, IF fs.dst.kind = "dir" THEN "rmtree dst"
                                   ELSE "unlink dst")
    /\ pc' = Following("remove_dst")
    /\ UNCHANGED <<env, cfg, fs0, self, err, dirs, cmd, rc, pip_calls, idx>>
    /\ UNCHANGED <<tvars, gvars>>

\* faulty variant: dev-requires come first
Requirements_DevFirst(c) == SplitLines(c.dev_requires) \o SplitLines(c.requires)

\* lines 153-155: requires followed by dev-requires
Requirements(c) == SplitLines(c.requires) \o SplitLines(c.dev_requires)

\* lines 160-163
Translated(reqs) == [i \in 1..Len(reqs) |-> RequiresDistToPipRequirement(reqs[i])]

\* lines 164-166
PipCommand(user) ==
    <<"sys.executable", "-m", "pip", "install">>
    \o (IF user THEN <<"--user">> ELSE <<>>)

\* line 171
WithRequirementsFile(c, name) == c \o <<"-r", name>>

\* lines 167-170: what is written to the temporary file
RequirementsText(reqs) == Join(<<"\n">>, Translated(reqs))

\* lines 153-171 of install_requirements: up to the call of pip
InstallRequirementsBegin ==
    /\ pc = "requirements"
    /\ LET requirements == Requirements(cfg)
       IN  IF requirements = <<>> THEN
               /\ pc' = Following("requirements")
               /\ UNCHANGED <<fs, cmd, trace>>
           ELSE
               /\ fs' = [fs EXCEPT !.tmp = Some(RequirementsText(requirements))]
               /\ cmd' = WithRequirementsFile(PipCommand(self.user), "tf.name")
               /\ trace' = trace
                           \o [i \in 1..Len(requirements) |-> "translate"]
                           \o <<"write tf">>
               /\ pc' = "check_call"
    /\ UNCHANGED <<env, cfg, fs0, self, err, dirs, rc, pip_calls, idx>>
    /\ UNCHANGED <<tvars, gvars>>

\* line 173: pip runs and exits with `status`
CheckCall(status) ==
    /\ pc = "check_call"
    /\ pip_calls' = Append(pip_calls, [argv |-> cmd, file |-> fs.tmp])
    /\ rc' = status
    /\ trace' = Append(trace, "pip")
    /\ pc' = "finally"
    /\ UNCHANGED <<env, cfg, fs, fs0, self, err, dirs, cmd, idx>>
    /\ UNCHANGED <<tvars, gvars>>

\* faulty variant: the file is removed only when pip succeeded
RemoveTemp_OnSuccess(f) == IF rc = 0 THEN [f EXCEPT !.tmp = None] ELSE f

\* line 175: os.remove(tf.name)
RemoveTemp(f) == [f EXCEPT !.tmp = None]

\* lines 174-175: the finally clause, then check_call's CalledProcessError if any
InstallRequirementsFinally ==
    /\ pc = "finally"
    /\ fs' = RemoveTemp(fs)
    /\ trace' = Append(trace, "remove tf")
    /\ IF rc # 0 THEN Fail("CalledProcessError")
       ELSE pc' = Following("requirements") /\ err' = err
    /\ UNCHANGED <<env, cfg, fs0, self, dirs, cmd, rc, pip_calls, idx>>
    /\ UNCHANGED <<tvars, gvars>>

\* lines 200-206 of install: symlink, copytree or copy2
InstallCopy ==
    /\ pc = "copy"
    /\ LET how == IF self.symlink THEN "link"
                  ELSE IF self.module.is_package THEN "dir"
                  ELSE "file"
       IN  /\ fs' = [fs EXCEPT !.dst = Node(how, "install")]
           /\ trace' = Append(trace, CASE how = "link" -> "symlink"
                                       [] how = "dir"  -> "copytree"
                                       [] OTHER        -> "copy2")
    /\ pc' = Following("copy")
    /\ UNCHANGED <<env, cfg, fs0, self, err, dirs, cmd, rc, pip_calls, idx>>
    /\ UNCHANGED <<tvars, gvars>>

\* lines 208-210 of install: install_scripts is called when the section exists
InstallScriptsEnter ==
    /\ pc = "scripts"
    /\ pc' = IF cfg.scripts = None THEN "done" ELSE "script_loop"
    /\ idx' = 1
    /\ UNCHANGED <<env, cfg, fs, fs0, self, err, dirs, cmd, rc, pip_calls, trace>>
    /\ UNCHANGED <<tvars, gvars>>

\* line 130: pjoin gives a str
ScriptFile(name) == [type |-> "str", name |-> name]

\* line 140: script_file.with_suffix('.cmd'), a method of pathlib paths only
CallWithSuffix(obj) ==
    IF obj.type = "Path" THEN [type |-> "Path", name |-> obj.name]
    ELSE Raised("AttributeError")

\* lines 128-145 of install_scripts: one iteration of the loop, or its end
InstallScriptsStep ==
    /\ pc = "script_loop"
    /\ LET defs == cfg.scripts[1]
       IN  IF idx > Len(defs) THEN
               /\ pc' = "done"
               /\ UNCHANGED <<fs, err, idx, trace>>
           ELSE
               LET name        == defs[idx].name
                   script_file == ScriptFile(name)
                   written     == [fs EXCEPT !.launchers = @ \cup {name},
                                             !.modes = @ \cup {name}]
               IN  IF env.platform = "win32" THEN
                       LET cmd_file == CallWithSuffix(script_file)
                       IN  IF IsRaised(cmd_file) THEN
                               /\ fs' = written
                               /\ trace' = trace \o <<"write script", "chmod">>
                               /\ Fail(cmd_file.raised)
                               /\ idx' = idx
                           ELSE
                               /\ fs' = [written EXCEPT !.wrappers = @ \cup {name}]
                               /\ trace' = trace \o <<"write script", "chmod", "write cmd">>
                               /\ idx' = idx + 1
                               /\ UNCHANGED <<pc, err>>
                   ELSE
                       /\ fs' = written
                       /\ trace' = trace \o <<"write script", "chmod">>
                       /\ idx' = idx + 1
                       /\ UNCHANGED <<pc, err>>
    /\ UNCHANGED <<env, cfg, fs0, self, dirs, cmd, rc, pip_calls>>
    /\ UNCHANGED <<tvars, gvars>>

InitInstaller ==
    /\ env \in Environments
    /\ cfg \in Configs
    /\ fs \in Filesystems
    /\ fs0 = fs
    /\ self = NoSelf
    /\ pc = "start"
    /\ err = "none"
    /\ dirs = None
    /\ cmd = <<>>
    /\ rc = 0
    /\ pip_calls = <<>>
    /\ idx = 0
    /\ trace = <<>>

Next ==
    \/ \E user \in {None, Some(TRUE), Some(FALSE)}, symlink \in BOOLEAN :
           Construct(user, symlink)
    \/ InstallDirs
    \/ InstallRemoveDst
    \/ InstallRequirementsBegin
    \/ \E status \in {0, 1} : CheckCall(status)
    \/ InstallRequirementsFinally
    \/ InstallCopy
    \/ InstallScriptsEnter
    \/ InstallScriptsStep

-----------------------------------------------------------------------------
(* The two pure functions, each applied to inputs drawn at the start *)

Alphabet == {"f", " ", "(", ")", ";", "=", "<", ">"}

\* every string over Alphabet of at most n characters
Strings(n) == UNION {[1..k -> Alphabet] : k \in 0..n}

\* the declarations of the specification's examples
ExFoo      == <<"f", "o", "o">>
ExFooVer   == <<"f", "o", "o", " ", "(", "1", ".", "2", ")">>
ExFooGe    == <<"f", "o", "o", " ", "(", ">", "=", "1", ".", "2", ")">>
ExFooMark  == <<"f", "o", "o", ";", " ", "s", "y", "s", "_", "p", "l", "a", "t", "f", "o",
                "r", "m", "=", "=", "'", "w", "i", "n", "3", "2", "'">>
ExFooGeMark == <<"f", "o", "o", " ", "(", ">", "=", "1", ".", "0", ")", ";", " ", "e", "x",
                 "t", "r", "a", " ", "=", "=", " ", "'", "d", "e", "v", "'">>
ExMarkParen == <<"f", "o", "o", ";", " ", "(", "a", ")">>
ExNested    == <<"f", " ", "(", "(", "1", ")", ")", " ", ";", "m", ";", "n">>

Examples == {ExFoo, ExFooVer, ExFooGe, ExFooMark, ExFooGeMark, ExMarkParen, ExNested}

Declarations == Strings(MaxLen) \cup Examples

InitTranslate ==
    /\ requires_dist \in Declarations
    /\ pip_req = <<>>
    /\ t_pc = "call"

Translate ==
    /\ t_pc = "call"
    /\ pip_req' = RequiresDistToPipRequirement(requires_dist)
    /\ t_pc' = "return"
    /\ UNCHANGED <<requires_dist, gvars, ivars>>

InitGetDirs ==
    /\ gd_user \in BOOLEAN
    /\ gd_platform \in Platforms
    /\ gd_vars \in InterpolationVars
    /\ gd_ret = None
    /\ gd_pc = "call"

CallGetDirs ==
    /\ gd_pc = "call"
    /\ gd_ret' = GetDirs(gd_user, gd_platform, gd_vars)
    /\ gd_pc' = "return"
    /\ UNCHANGED <<gd_user, gd_platform, gd_vars, tvars, ivars>>

\* the parts of the state a specification does not use
IdleTranslate == requires_dist = <<>> /\ pip_req = <<>> /\ t_pc = "idle"
IdleGetDirs ==
    /\ gd_user = FALSE /\ gd_platform = "linux" /\ gd_vars = None
    /\ gd_ret = None /\ gd_pc = "idle"
IdleInstaller ==
    /\ env = None /\ cfg = None /\ fs = None /\ fs0 = None /\ self = NoSelf
    /\ pc = "idle" /\ err = "none" /\ dirs = None /\ cmd = <<>> /\ rc = 0
    /\ pip_calls = <<>> /\ idx = 0 /\ trace = <<>>

\* the Installer run
Init == InitInstaller /\ IdleTranslate /\ IdleGetDirs
Spec == Init /\ [][Next]_vars

\* _requires_dist_to_pip_requirement on every declaration
InitT == InitTranslate /\ IdleGetDirs /\ IdleInstaller
NextT == Translate
SpecTranslate == InitT /\ [][NextT]_vars

\* get_dirs on every (user, platform, interpolation vars)
InitG == InitGetDirs /\ IdleTranslate /\ IdleInstaller
NextG == CallGetDirs
SpecGetDirs == InitG /\ [][NextG]_vars

-----------------------------------------------------------------------------
(* Properties *)

\* index of the first c in s, for s containing c
FirstAt(s, c) == CHOOSE i \in 1..Len(s) : s[i] = c /\ \A j \in 1..(i - 1) : s[j] # c

\* the text after the first ';' of s, empty when s has none
MarkerOf(s) ==
    IF Contains(s, ";") THEN SubSeq(s, FirstAt(s, ";") + 1, Len(s)) ELSE <<>>

\* the text before the first ';' of s, all of s when it has none
LeftOf(s) ==
    IF Contains(s, ";") THEN SubSeq(s, 1, FirstAt(s, ";") - 1) ELSE s

\* s without its leading and trailing whitespace
Trimmed(s) ==
    LET solid == {i \in 1..Len(s) : s[i] \notin Whitespace}
    IN  IF solid = {} THEN <<>>
        ELSE SubSeq(s, CHOOSE i \in solid : \A j \in solid : i <= j,
                       CHOOSE i \in solid : \A j \in solid : i >= j)

\* s without any c
Without(s, c) == SelectSeq(s, LAMBDA x : x # c)

\* '==' + v for a bare version, v when it carries a comparison operator
Constraint(v) ==
    IF \A i \in 1..Len(v) : v[i] \notin {"=", "<", ">"} THEN <<"=", "=">> \o v ELSE v

\* d is 'name (v)': no ';', and neither name nor v holds a blank or a parenthesis
NameParenVersion(d) ==
    /\ ~Contains(d, ";")
    /\ Len(d) >= 5
    /\ d[Len(d)] = ")"
    /\ Contains(d, "(")
    /\ LET p == FirstAt(d, "(")
       IN  /\ p >= 3
           /\ d[p - 1] = " "
           /\ p + 1 <= Len(d) - 1
           /\ \A i \in (1..(p - 2)) \cup ((p + 1)..(Len(d) - 1)) :
                  d[i] \notin Whitespace \cup {"(", ")"}

NameIn(d)    == SubSeq(d, 1, FirstAt(d, "(") - 2)
VersionIn(d) == SubSeq(d, FirstAt(d, "(") + 1, Len(d) - 1)

\* C1 (as claimed): for each of the four (user, platform) combinations get_dirs
\* returns, without raising, the 'scripts' and 'purelib' strings of the case table
\* with the interpolation vars substituted.
C1_CaseTable ==
    gd_pc = "return" =>
        LET v   == gd_vars
            maj == Digits(v.py_major)
            min == Digits(v.py_minor)
        IN  gd_ret =
            IF gd_user /\ gd_platform = "win32" THEN
                [scripts |-> <<v.userbase, "/Python">> \o maj \o min \o <<"/Scripts">>,
                 purelib |-> <<v.usersite>>]
            ELSE IF gd_user THEN
                [scripts |-> <<v.userbase, "/bin">>, purelib |-> <<v.usersite>>]
            ELSE IF gd_platform = "win32" THEN
                [scripts |-> <<v.prefix, "/Scripts">>,
                 purelib |-> <<v.prefix, "/Lib/site-packages">>]
            ELSE
                [scripts |-> <<v.prefix, "/bin">>,
                 purelib |-> <<v.prefix, "/lib/python">> \o maj \o <<".">> \o min
                             \o <<"/site-packages">>]

\* C2 (as claimed): for 'name (v)' without ';' the result is exactly the name
\* followed by the constraint, and nothing else.
C2_NameConstraintOnly ==
    (t_pc = "return" /\ NameParenVersion(requires_dist)) =>
        pip_req = NameIn(requires_dist) \o Constraint(VersionIn(requires_dist))

\* C2 (amended): for 'name (v)' without ';' the result is the name, the
\* constraint ('==' + v for a bare v, else v), and then a trailing ';'.
C2_NameConstraintSemicolon ==
    /\ (t_pc = "return" /\ NameParenVersion(requires_dist)) =>
           pip_req = NameIn(requires_dist) \o Constraint(VersionIn(requires_dist))
                     \o <<";">>
    /\ (t_pc = "return" /\ requires_dist = ExFooVer) =>
           pip_req = <<"f", "o", "o", "=", "=", "1", ".", "2", ";">>
    /\ (t_pc = "return" /\ requires_dist = ExFooGe) =>
           pip_req = <<"f", "o", "o", ">", "=", "1", ".", "2", ";">>

C2_Witness ==
    /\ t_pc = "return"
    /\ requires_dist = ExFooVer
    /\ NameParenVersion(requires_dist)
    /\ pip_req = <<"f", "o", "o", "=", "=", "1", ".", "2", ";">>

\* C3: the result is L + ';' + M with M the input's text after its first ';'
\* copied verbatim (empty without ';') and L free of ';'; the ';' is there even
\* when M is empty; and when the text before the first ';' holds no '(' it is
\* copied unchanged, whatever the marker holds.
C3_MarkerVerbatim ==
    t_pc = "return" =>
        /\ Contains(pip_req, ";")
        /\ MarkerOf(pip_req) = MarkerOf(requires_dist)
        /\ pip_req = LeftOf(pip_req) \o <<";">> \o MarkerOf(requires_dist)
        /\ ~Contains(LeftOf(requires_dist), "(") =>
               pip_req = LeftOf(requires_dist) \o <<";">> \o MarkerOf(requires_dist)
        /\ requires_dist = ExFoo => pip_req = <<"f", "o", "o", ";">>
        /\ requires_dist = ExFooMark => pip_req = ExFooMark

C3_Witness ==
    /\ t_pc = "return"
    /\ requires_dist = ExMarkParen
    /\ Contains(MarkerOf(requires_dist), "(")
    /\ pip_req = requires_dist

\* C4: when the text before the first ';' holds '(', the result's left-hand side
\* is name + version: name is the stripped text before the first '(', version the
\* text after it with every ')' removed and stripped, prefixed with '==' exactly
\* when it holds none of '=', '<', '>'.
C4_NameVersion ==
    (t_pc = "return" /\ Contains(LeftOf(requires_dist), "(")) =>
        LET left    == LeftOf(requires_dist)
            p       == FirstAt(left, "(")
            name    == Trimmed(SubSeq(left, 1, p - 1))
            version == Trimmed(Without(SubSeq(left, p + 1, Len(left)), ")"))
        IN  /\ LeftOf(pip_req) = name \o Constraint(version)
            /\ requires_dist = ExFooGeMark =>
                   pip_req = <<"f", "o", "o", ">", "=", "1", ".", "0", ";", " ", "e", "x",
                               "t", "r", "a", " ", "=", "=", " ", "'", "d", "e", "v", "'">>

C4_Witness ==
    /\ t_pc = "return"
    /\ requires_dist = ExNested
    /\ pip_req = <<"f", "=", "=", "(", "1", ";", "m", ";", "n">>

\* filesystem operations that change something
Mutations ==
    {"makedirs purelib", "makedirs scripts", "rmtree dst", "unlink dst", "write tf",
     "remove tf", "symlink", "copytree", "copy2", "write script", "chmod", "write cmd"}

CopyEvents == {"symlink", "copytree", "copy2"}

\* positions of the events of set E in the trace
At(E) == {i \in 1..Len(trace) : trace[i] \in E}

\* exceptions that Installer.__init__ lets out
ConstructionErrors ==
    {"ValueError: both exist", "ValueError: no file/folder found", "RootInstallError"}

\* C5: when construction fails with the ambiguous-layout, missing-module or
\* root-install error, nothing on the filesystem has been changed; and under uid 0
\* with FLIT_ROOT_INSTALL unset or empty, construction never succeeds.
C5_FailedConstructionTouchesNothing ==
    /\ (pc = "failed" /\ err \in ConstructionErrors) =>
           /\ fs = fs0
           /\ At(Mutations) = {}
           /\ ~self.constructed
    /\ (pc # "idle" /\ env.uid = 0 /\ env.FLIT_ROOT_INSTALL \in {None, Some("")}) =>
           /\ ~self.constructed
           /\ pc \in {"start", "failed"}
           /\ At(Mutations) = {}

C5_Witness ==
    /\ pc = "failed"
    /\ err = "RootInstallError"
    /\ env.uid = 0
    /\ env.FLIT_ROOT_INSTALL = Some("")
    /\ fs.dst # Absent
    /\ ~fs.scripts_dir

\* C6: once pip has been invoked and the call has returned, the temporary
\* requirements file no longer exists, whatever the exit status; a nonzero status
\* still ends the run with CalledProcessError, raised after the removal.
C6_TempFileRemoved ==
    (pip_calls # <<>> /\ pc # "finally") =>
        /\ fs.tmp = None
        /\ At({"remove tf"}) # {}
        /\ \A i \in At({"remove tf"}) : \A j \in At({"write tf", "pip"}) : j < i
        /\ rc # 0 => /\ pc = "failed"
                     /\ err = "CalledProcessError"
                     /\ trace[Len(trace)] = "remove tf"
        /\ rc = 0 => err # "CalledProcessError"

C6_Witness ==
    /\ pc = "failed"
    /\ err = "CalledProcessError"
    /\ rc # 0
    /\ pip_calls # <<>>
    /\ pip_calls[1].file # None
    /\ fs.tmp = None

\* what each declared line of the pools becomes
Expected(decl) ==
    CASE decl = DeclFooEq  -> <<"f", "o", "o", "=", "=", "1", ".", "2", ";">>
      [] decl = DeclBaz    -> <<"b", "a", "z", ";">>
      [] decl = DeclBarGe  -> <<"b", "a", "r", ">", "=", "2", ";">>
      [] decl = DeclDevMk  -> <<"q", ";", " ", "x", "=", "=", "'", "d", "'">>
      [] decl = DeclDevVer -> <<"t", "<", "3", ";", "m">>

\* the lines, each but the last followed by a line break
Lines(ls) ==
    LET F[i \in 0..Len(ls)] ==
            IF i = 0 THEN <<>>
            ELSE F[i - 1] \o (IF i = 1 THEN <<>> ELSE <<"\n">>) \o ls[i]
    IN  F[Len(ls)]

\* the dependencies flit.ini declares: n requires, m dev-requires
Declares(n, m) ==
    /\ cfg.requires = OptionValue(Take(RequiresPool, n))
    /\ cfg.dev_requires = OptionValue(Take(DevRequiresPool, m))

\* the run is past install_requirements
PastRequirements ==
    \/ pc \in {"copy", "scripts", "script_loop", "done"}
    \/ pc = "failed" /\ err = "CalledProcessError"

\* C7: with at least one dependency declared, pip is invoked exactly once, with
\* 'install', then '--user' exactly for a user install, then '-r <tempfile>'; at
\* that moment the file exists and holds the translated requirements, requires
\* first and dev-requires after, joined by line breaks.
C7_PipInvocation ==
    pc # "idle" =>
    \A n \in 0..MaxRequires, m \in 0..MaxDevRequires :
        (Declares(n, m) /\ n + m > 0) =>
            /\ Len(pip_calls) <= 1
            /\ PastRequirements => Len(pip_calls) = 1
            /\ \A k \in 1..Len(pip_calls) :
                   /\ pip_calls[k].argv =
                          <<"sys.executable", "-m", "pip", "install">>
                          \o (IF self.user THEN <<"--user">> ELSE <<>>)
                          \o <<"-r", "tf.name">>
                   /\ pip_calls[k].file =
                          Some(Lines([i \in 1..(n + m) |->
                                        IF i <= n THEN Expected(Take(RequiresPool, n)[i])
                                        ELSE Expected(Take(DevRequiresPool, m)[i - n])]))

C7_Witness ==
    /\ Len(pip_calls) = 1
    /\ self.user
    /\ Declares(2, 1)
    /\ pip_calls[1].argv = <<"sys.executable", "-m", "pip", "install", "--user", "-r", "tf.name">>
    /\ pip_calls[1].file =
           Some(Expected(DeclFooEq) \o <<"\n">> \o Expected(DeclBaz) \o <<"\n">>
                \o Expected(DeclDevMk))

\* names of the [scripts] entries
ScriptNames == IF cfg.scripts = None THEN {}
               ELSE {cfg.scripts[1][i].name : i \in 1..Len(cfg.scripts[1])}

\* C8 (as claimed): install_scripts completes for every entry; on win32 it leaves
\* each launcher with its .cmd wrapper, elsewhere only the executable launcher.
C8_ScriptsAndWrappers ==
    /\ ~(pc = "failed" /\ idx > 0)
    /\ (pc = "done" /\ cfg.scripts # None) =>
           /\ fs.launchers = ScriptNames
           /\ fs.modes = ScriptNames
           /\ fs.wrappers = IF env.platform = "win32" THEN ScriptNames ELSE {}

\* C9 (as claimed): get_dirs is called once, then the module is copied or
\* symlinked, and only after that are the requirements translated and pip invoked.
C9_CopyThenRequirements ==
    pc # "idle" =>
        \A i \in At({"translate", "pip"}) : \E j \in At(CopyEvents) : j < i

\* C9 (amended): get_dirs is called once, first; then the requirements are
\* translated and pip is invoked; only after that is the module copied or
\* symlinked into purelib.
C9_RequirementsThenCopy ==
    pc # "idle" =>
        /\ Cardinality(At({"get_dirs"})) <= 1
        /\ Cardinality(At(CopyEvents)) <= 1
        /\ \A i \in At({"translate", "pip"} \cup CopyEvents) :
               \E j \in At({"get_dirs"}) : j < i
        /\ \A i \in At(CopyEvents) :
               /\ \A j \in At({"translate", "pip"}) : j < i
               /\ (cfg.requires # <<>> \/ cfg.dev_requires # <<>>) =>
                      At({"translate"}) # {} /\ At({"pip"}) # {}
        /\ pc = "done" =>
               Cardinality(At({"get_dirs"})) = 1 /\ Cardinality(At(CopyEvents)) = 1

C9_Witness ==
    /\ pc = "done"
    /\ At({"pip"}) # {}
    /\ At({"translate"}) # {}
    /\ At(CopyEvents) # {}

\* C10: when pip exits nonzero the run stops with no module copied or symlinked
\* and no script written, and whatever was at the destination path before the run
\* has been removed: nothing is left there.
C10_FailedPipLeavesNothing ==
    (pc = "failed" /\ err = "CalledProcessError") =>
        /\ fs.dst = Absent
        /\ At(CopyEvents) = {}
        /\ fs.launchers = {} /\ fs.wrappers = {}
        /\ At({"write script", "write cmd"}) = {}
        /\ fs0.dst # Absent => At({"rmtree dst", "unlink dst"}) # {}

C10_Witness ==
    /\ pc = "failed"
    /\ err = "CalledProcessError"
    /\ fs0.dst = Node("link", "before")
    /\ fs.dst = Absent

====
